---- MODULE Spec2Model ----
(***************************************************************************)
(* The Confluence REST client of confluenceapi (src/confluenceapi/         *)
(* client.py) as a state machine.  A client call is a sequence of blocking *)
(* HTTP round trips; every round trip is one atomic step against the       *)
(* remote server, whose pages, attachments and spaces are the shared       *)
(* state.  Python strings are sequences of one-character strings, so that  *)
(* the URL quoting, the rsplit of the space path, basename, str() and      *)
(* int() are computed and not assumed.                                     *)
(* The constructor with its credentials probe and the page builder         *)
(* (src/confluenceapi/pagebuilder.py), whose methods append rendered       *)
(* template text to self.html, are part of the same machine.               *)
(***************************************************************************)
EXTENDS Integers, Sequences, FiniteSets, TLC

VARIABLES
    pages,          \* server: page id -> [title, space, version, body, parent]
    attachments,    \* server: attachment id -> [page, title, version]
    nextId,         \* server: the next content id it assigns
    pc,             \* client -> where its current call stands
    op,             \* client -> the call and its arguments
    ap_space_key,   \* client -> local space_key of add_page
    space_key,      \* client -> local space_key of _get_pageid
    pageid,         \* client -> local pageid (0: not assigned)
    page_info,      \* client -> what the version fetch returned
    attachmentid,   \* client -> local attachmentid
    sent,           \* client -> the url target and payload of the mutating request
    reqs,           \* client -> the requests of the current call, in order, with status
    result,         \* client -> how the call ended: returned or raised
    stdout,         \* client -> what the current call printed
    last,           \* client -> summary of the call completed before the current one
    calls,          \* number of calls started
    html,           \* builder: self.html, the markup accumulated so far
    built,          \* builder: the last method called on it and how it ended
    obj             \* the client object under construction: its fields, the probe

vars == <<pages, attachments, nextId, pc, op, ap_space_key, space_key, pageid,
          page_info, attachmentid, sent, reqs, result, stdout, last, calls,
          html, built, obj>>

\* The builder and the constructor's object, which no client call touches
builder_vars == <<html, built>>
client_vars == <<pages, attachments, nextId, pc, op, ap_space_key, space_key, pageid,
                 page_info, attachmentid, sent, reqs, result, stdout, last, calls>>

-----------------------------------------------------------------------------
(* Bounds of the model *)

MaxCalls == 3
MaxNewContent == 1

-----------------------------------------------------------------------------
(* Python values and string functions *)

Str(s) == [t |-> "str", v |-> s]
NotStr == [t |-> "int", v |-> <<"5">>]
None == [t |-> "none", v |-> <<>>]
Bool(b) == [t |-> "bool", v |-> IF b THEN <<"T">> ELSE <<>>]

isinstance_str(x) == x.t = "str"
isinstance_bool(x) == x.t = "bool"
\* Python truthiness of an argument: None, "", False and 0 are falsy
Truthy(x) == x.t # "none" /\ x.v # <<>>

\* s.replace(old, new) for a one-character old
RECURSIVE replace(_, _, _)
replace(s, old, new) ==
    IF s = <<>> THEN <<>>
    ELSE (IF Head(s) = old THEN new ELSE <<Head(s)>>) \o replace(Tail(s), old, new)

\* A faulty variant of rsplit_last: the path is not split
rsplit_whole(s, sep) == s

\* s.rsplit(sep, 1)[-1]: what follows the last sep, the whole of s without one
rsplit_last(s, sep) ==
    IF \E i \in 1..Len(s) : s[i] = sep
    THEN LET i == CHOOSE k \in 1..Len(s) :
                      s[k] = sep /\ \A j \in (k+1)..Len(s) : s[j] # sep
         IN  SubSeq(s, i + 1, Len(s))
    ELSE s

\* os.path.basename
basename(p) == rsplit_last(p, "/")

Digits == <<"0", "1", "2", "3", "4", "5", "6", "7", "8", "9">>

\* str(n) for n >= 0
RECURSIVE str(_)
str(n) == IF n < 10 THEN <<Digits[n + 1]>>
          ELSE str(n \div 10) \o <<Digits[(n % 10) + 1]>>

\* A faulty variant of int: an id held from before in place of the one parsed
int_stale(s) == 9

IsDigits(s) == s # <<>> /\ \A i \in 1..Len(s) : \E d \in 1..10 : Digits[d] = s[i]

\* int(s) for a string of decimal digits
RECURSIVE int(_)
int(s) == IF s = <<>> THEN 0
          ELSE 10 * int(SubSeq(s, 1, Len(s) - 1))
               + (CHOOSE d \in 0..9 : Digits[d + 1] = s[Len(s)])

\* 'a%20b' for 'a b', as written at every place a name enters a url
quote_spaces(s) == replace(s, " ", <<"%", "2", "0">>)

-----------------------------------------------------------------------------
(* The remote server: how it reads a url and what it holds *)

\* The value of a query parameter as the server reads it: it ends at the
\* next '&', and %20 is a space.
RECURSIVE PercentDecode(_)
PercentDecode(s) ==
    IF s = <<>> THEN <<>>
    ELSE IF Len(s) >= 3 /\ SubSeq(s, 1, 3) = <<"%", "2", "0">>
         THEN <<" ">> \o PercentDecode(SubSeq(s, 4, Len(s)))
         ELSE <<Head(s)>> \o PercentDecode(Tail(s))

UntilAmp(s) ==
    IF \E i \in 1..Len(s) : s[i] = "&"
    THEN SubSeq(s, 1, (CHOOSE k \in 1..Len(s) :
                          s[k] = "&" /\ \A j \in 1..(k-1) : s[j] # "&") - 1)
    ELSE s

\* requests quotes what a url may not hold (a space) before sending it
Transport(raw) == quote_spaces(raw)

QueryValue(raw) == PercentDecode(UntilAmp(Transport(raw)))

DS == <<"D", "S">>
E1 == <<"E", "1">>
E2 == <<"E", "2">>

\* The spaces of the server: key and display name.  Two spaces share a name.
Spaces == { [key |-> DS, name |-> <<"D", " ", "S">>],
            [key |-> E1, name |-> <<"E">>],
            [key |-> E2, name |-> <<"E">>] }

SpaceNamed(key) == (CHOOSE s \in Spaces : s.key = key).name

\* CQL's text match, title ~ "q": q occurs in the title
Contains(name, q) ==
    \E i \in 1..(Len(name) - Len(q) + 1) : SubSeq(name, i, i + Len(q) - 1) = q

\* _expandable.space of a content item
SpacePath(key) == <<"/", "s", "p", "a", "c", "e", "/">> \o key

\* Every way the server may order n of the items of S
Listings(S, n) == { f \in [1..n -> S] : \A i, j \in 1..n : i # j => f[i] # f[j] }

Min(a, b) == IF a < b THEN a ELSE b

-----------------------------------------------------------------------------
(* The remote server's answers.  Each operator gives the set of responses  *)
(* the server may give to one request: [status, json, has, ...], json      *)
(* telling whether the body parses as JSON and has whether it holds the    *)
(* keys of a successful answer.                                            *)

Limit == 1

Quote == "\""

\* Any request may fail on the server's side: a JSON error object or, from
\* the authentication filter, an HTML page.
Faults == { [status |-> 500, json |-> TRUE,  has |-> FALSE, results |-> <<>>],
            [status |-> 401, json |-> FALSE, has |-> FALSE, results |-> <<>>] }

FaultStatus == { f.status : f \in Faults }

ErrorAnswer(st) == [status |-> st, json |-> TRUE, has |-> FALSE, results |-> <<>>]

Results(S, n) ==
    { [status |-> 200, json |-> TRUE, has |-> TRUE, results |-> r] : r \in Listings(S, n) }

ContentItem(P, i) == [id |-> str(i), title |-> P[i].title, space |-> SpacePath(P[i].space)]

\* GET content/search?cql=space.title ~ "<name>"&limit=<limit>
SrvContentSearch(P, rawname, limit) ==
    LET cql == QueryValue(<<Quote>> \o rawname \o <<Quote>>)
        wellformed == Len(cql) >= 2 /\ cql[1] = Quote /\ cql[Len(cql)] = Quote
        q == SubSeq(cql, 2, Len(cql) - 1)
        hits == { ContentItem(P, i) : i \in { j \in DOMAIN P : Contains(SpaceNamed(P[j].space), q) } }
    IN  IF wellformed THEN Results(hits, Min(limit, Cardinality(hits)))
        ELSE { ErrorAnswer(400) }

\* GET space?spaceKey=<key>
SrvSpaceByKey(rawkey) ==
    LET hits == { s \in Spaces : s.key = QueryValue(rawkey) }
    IN  Results(hits, Cardinality(hits))

\* GET content?title=<title>&spaceKey=<key>&expand=body.storage
SrvContentByTitle(P, rawtitle, rawkey) ==
    LET hits == { ContentItem(P, i) : i \in { j \in DOMAIN P :
                      /\ P[j].title = QueryValue(rawtitle)
                      /\ P[j].space = QueryValue(rawkey) } }
    IN  Results(hits, Cardinality(hits))

PageOf(P, idstr) == IF IsDigits(idstr) /\ int(idstr) \in DOMAIN P THEN int(idstr) ELSE 0

\* GET content/<id>?expand=version
SrvContentById(P, idstr) ==
    LET i == PageOf(P, idstr)
    IN  IF i = 0
        THEN { [status |-> 404, json |-> TRUE, has |-> FALSE,
                title |-> <<>>, number |-> 0, space |-> <<>>] }
        ELSE { [status |-> 200, json |-> TRUE, has |-> TRUE,
                title |-> P[i].title, number |-> P[i].version,
                space |-> SpacePath(P[i].space)] }

AttachmentIdStr(n) == <<"a", "t", "t">> \o str(n)

AttachmentOf(A, idstr) ==
    IF \E n \in DOMAIN A : AttachmentIdStr(n) = idstr
    THEN CHOOSE n \in DOMAIN A : AttachmentIdStr(n) = idstr
    ELSE 0

\* GET content/<id>/child/attachment
SrvAttachments(P, A, idstr) ==
    LET i == PageOf(P, idstr)
        hits == { [id |-> AttachmentIdStr(n), title |-> A[n].title] :
                      n \in { m \in DOMAIN A : A[m].page = i } }
    IN  IF i = 0 THEN { ErrorAnswer(404) }
        ELSE Results(hits, Cardinality(hits))

Without(F, i) == [k \in DOMAIN F \ {i} |-> F[k]]

\* PUT content/<id>: the server's version check; [status, pages]
SrvUpdate(P, idstr, data) ==
    LET i == PageOf(P, idstr)
    IN  IF i = 0 THEN [status |-> 404, pages |-> P]
        ELSE IF data.version # P[i].version + 1 \/ data.id # i
                \/ data.space # P[i].space \/ ~isinstance_str(data.title)
             THEN [status |-> 409, pages |-> P]
             ELSE [status |-> 200,
                   pages |-> [P EXCEPT ![i] = [@ EXCEPT !.title = data.title.v,
                                                        !.body = data.body.v,
                                                        !.version = data.version]]]

\* POST content/: a new page, version 1; [status, pages]
SrvCreate(P, id, data) ==
    IF \/ ~isinstance_str(data.title) \/ ~isinstance_str(data.body)
       \/ ~\E s \in Spaces : s.key = data.space
       \/ \E j \in DOMAIN P : P[j].title = data.title.v /\ P[j].space = data.space
       \/ \E k \in 1..Len(data.ancestors) : data.ancestors[k] \notin DOMAIN P
    THEN [status |-> 400, pages |-> P]
    ELSE [status |-> 200,
          pages |-> P @@ (id :> [title |-> data.title.v, space |-> data.space,
                                 version |-> 1, body |-> data.body.v,
                                 parent |-> IF data.ancestors = <<>> THEN 0
                                            ELSE data.ancestors[Len(data.ancestors)]])]

\* DELETE content/<id>, a page or an attachment; [status, pages, attachments]
SrvDelete(P, A, idstr) ==
    LET i == PageOf(P, idstr)
        n == AttachmentOf(A, idstr)
    IN  IF i # 0
        THEN [status |-> 204,
              pages |-> [k \in DOMAIN P \ {i} |->
                            IF P[k].parent = i THEN [P[k] EXCEPT !.parent = P[i].parent]
                            ELSE P[k]],
              attachments |-> [m \in { x \in DOMAIN A : A[x].page # i } |-> A[m]]]
        ELSE IF n # 0
             THEN [status |-> 204, pages |-> P, attachments |-> Without(A, n)]
             ELSE [status |-> 404, pages |-> P, attachments |-> A]

\* POST content/<id>/child/attachment: a file name is taken once per page
SrvAttach(P, A, id, idstr, file) ==
    LET i == PageOf(P, idstr)
    IN  IF i = 0 THEN [status |-> 404, attachments |-> A]
        ELSE IF \E n \in DOMAIN A : A[n].page = i /\ A[n].title = basename(file)
             THEN [status |-> 400, attachments |-> A]
             ELSE [status |-> 200,
                   attachments |-> A @@ (id :> [page |-> i, title |-> basename(file),
                                                version |-> 1])]

\* POST content/<id>/child/attachment/<attachmentid>/data: new bytes
SrvAttachData(P, A, idstr, attidstr) ==
    LET i == PageOf(P, idstr)
        n == AttachmentOf(A, attidstr)
    IN  IF i = 0 \/ n = 0 \/ (n # 0 /\ A[n].page # i)
        THEN [status |-> 404, attachments |-> A]
        ELSE [status |-> 200, attachments |-> [A EXCEPT ![n].version = @ + 1]]

ErrorPage == <<"<", "e", "r", "r", ">">>

\* GET /plugins/viewstorage/viewpagestorage.action?pageId=<id>; [status, text]
SrvViewStorage(P, idstr) ==
    LET i == PageOf(P, idstr)
    IN  IF i = 0 THEN [status |-> 404, text |-> ErrorPage]
        ELSE [status |-> 200, text |-> P[i].body]

-----------------------------------------------------------------------------
(* The calls a caller may make *)

Clients == {1, 2}

\* (page_name, space_name, space_name_as_key): titles with a space and with
\* an ampersand, display names, a name two spaces share, a name and a key no
\* space has, a key given as such
Targets == { <<<<"A", " ", "B">>, <<"D", " ", "S">>, FALSE>>,
             <<<<"A">>, <<"D", " ", "S">>, FALSE>>,
             <<<<"A", "&", "B">>, <<"D", " ", "S">>, FALSE>>,
             <<<<"A">>, <<"E">>, FALSE>>,
             <<<<"A">>, <<"X">>, FALSE>>,
             <<<<"A", " ", "B">>, DS, TRUE>>,
             <<<<"A">>, <<"X">>, TRUE>> }

NewPages == { <<<<"A", "&", "B">>, <<"D", " ", "S">>, FALSE>>,
              <<<<"A">>, <<"D", " ", "S">>, FALSE>>,
              <<<<"A", "&", "B">>, <<"E">>, FALSE>>,
              <<<<"A", "&", "B">>, <<"X">>, FALSE>>,
              <<<<"A", "&", "B">>, DS, TRUE>> }

AttachmentTargets == { <<<<"A", " ", "B">>, <<"D", " ", "S">>, FALSE>>,
                       <<<<"A">>, <<"D", " ", "S">>, FALSE>>,
                       <<<<"A">>, <<"X">>, FALSE>> }

Bodies == <<<<"x">>, <<"y">>>>

\* (filepath, comment)
Files == { <<Str(<<"d", "/", "f">>), None>>, <<Str(<<"d", "/", "f">>), Str(<<"c">>)>>,
           <<Str(<<"g">>), None>> }

\* The files open() finds on the caller's disk
LocalFiles == { <<"d", "/", "f">> }

AttachmentNames == { <<"f">>, <<"g">> }

OpRec(name, tg, body, parent, file, attachment_name) ==
    [name |-> name, page_name |-> Str(tg[1]), space_name |-> Str(tg[2]),
     space_name_as_key |-> Bool(tg[3]), body |-> body, parent_page_name |-> parent,
     filepath |-> file[1], comment |-> file[2], attachment_name |-> attachment_name]

NoFile == <<None, None>>

ValidCalls ==
    { OpRec("add_page", tg, Str(<<>>), par, NoFile, None) :
        tg \in NewPages, par \in {None, Str(<<>>), Str(<<"A", " ", "B">>)} }
    \cup { OpRec("update_page", tg, Str(<<"x">>), None, NoFile, None) : tg \in Targets }
    \cup { OpRec(n, tg, None, None, NoFile, None) :
        n \in {"delete_page", "get_page_contents"}, tg \in Targets }
    \cup { OpRec(n, tg, None, None, f, None) :
        n \in {"upload_attachment", "update_attachment"},
        tg \in AttachmentTargets, f \in Files }
    \cup { OpRec("delete_attachment", tg, None, None, NoFile, Str(a)) :
        tg \in AttachmentTargets, a \in AttachmentNames }

\* The updates of two callers at work on the same pages, each with a body of
\* its own
UpdateCalls(b) ==
    { OpRec("update_page", tg, Str(b), None, NoFile, None) :
        tg \in { t \in Targets : t[2] = <<"D", " ", "S">> /\ t[1] # <<"A", "&", "B">> } }

\* The arguments a call declares, which a caller may pass a wrong type for
Params(name) ==
    {"page_name", "space_name", "space_name_as_key"}
    \cup (CASE name = "add_page" -> {"body", "parent_page_name"}
            [] name = "update_page" -> {"body"}
            [] name \in {"upload_attachment", "update_attachment"} -> {"filepath", "comment"}
            [] name = "delete_attachment" -> {"attachment_name"}
            [] OTHER -> {})

\* A call with one argument of the wrong type (an int where a str or bool belongs)
BadCalls ==
    { [o EXCEPT ![f] = NotStr] :
        o \in { v \in ValidCalls : /\ v.page_name \in {Str(<<"A", " ", "B">>),
                                                      Str(<<"A", "&", "B">>)}
                                   /\ v.space_name = Str(<<"D", " ", "S">>)
                                   /\ v.parent_page_name \in {None, Str(<<>>)}
                                   /\ v.comment = None
                                   /\ v.attachment_name \in {None, Str(<<"f">>)} },
        f \in {"page_name", "space_name", "space_name_as_key", "body",
               "parent_page_name", "filepath", "comment", "attachment_name"} }

Calls == ValidCalls \cup { o \in BadCalls : \E f \in Params(o.name) : o[f] = NotStr }

-----------------------------------------------------------------------------
(* The client *)

NoResult == [kind |-> "none", exc |-> "", status |-> 0, text |-> <<>>]
Raised(e) == [kind |-> "raised", exc |-> e, status |-> 0, text |-> <<>>]
Returned(st, txt) == [kind |-> "returned", exc |-> "", status |-> st, text |-> txt]

NoInfo == [title |-> <<>>, space |-> <<>>, number |-> 0]

NoData == [id |-> 0, title |-> None, space |-> <<>>, body |-> None, version |-> 0,
           ancestors |-> <<>>, file |-> <<>>, comment |-> <<>>]

NoSent == [method |-> "", target |-> <<>>, data |-> NoData]

NoCall == [OpRec("", <<<<>>, <<>>, FALSE>>, None, None, NoFile, None) EXCEPT
              !.page_name = None, !.space_name = None, !.space_name_as_key = None]

NoLast == [name |-> "", page_name |-> None, space_name |-> None,
           space_name_as_key |-> None, pageid |-> 0, number |-> 0, status |-> 0,
           text |-> <<>>]


\* The assertions a call evaluates before its first request
Asserts(o) ==
    LET public ==
            CASE o.name = "add_page" -> TRUE
              [] o.name = "update_page" ->
                    isinstance_str(o.page_name) /\ isinstance_str(o.space_name)
                    /\ isinstance_str(o.body)
              [] o.name \in {"upload_attachment", "update_attachment"} ->
                    isinstance_str(o.page_name) /\ isinstance_str(o.space_name)
                    /\ isinstance_str(o.filepath)
                    /\ (isinstance_str(o.comment) \/ o.comment = None)
              [] o.name = "delete_attachment" ->
                    isinstance_str(o.page_name) /\ isinstance_str(o.space_name)
                    /\ isinstance_str(o.attachment_name)
              [] OTHER ->
                    isinstance_str(o.page_name) /\ isinstance_str(o.space_name)
        get_pageid ==
            o.name = "add_page"
            \/ (isinstance_str(o.page_name) /\ isinstance_str(o.space_name))
        get_space_key ==
            isinstance_str(o.space_name) /\ isinstance_bool(o.space_name_as_key)
    IN  public /\ get_pageid /\ get_space_key

\* A faulty variant of Parse: whatever came back is taken for an answer
Parse_trusting(resp) == "ok"

\* What json.loads(response.text)[...] does to an answer
Parse(resp) == IF ~resp.json THEN "JSONDecodeError"
               ELSE IF ~resp.has THEN "KeyError" ELSE "ok"

\* The log of a call's requests: what was asked, the status of the answer, how
\* many results it listed (-1: none to count) and the id of the first
Entry(kind, st, n, first) == [req |-> kind, status |-> st, n |-> n, first |-> first]

Listed(resp) == IF Parse(resp) = "ok" THEN Len(resp.results) ELSE -1

First(resp) == IF Parse(resp) = "ok" /\ Len(resp.results) > 0 /\ "id" \in DOMAIN resp.results[1]
               THEN resp.results[1].id ELSE <<>>

Log(c, kind, resp) ==
    [reqs EXCEPT ![c] = Append(@, Entry(kind, resp.status, Listed(resp), First(resp)))]

LogSent(c, kind, st) == [reqs EXCEPT ![c] = Append(@, Entry(kind, st, -1, <<>>))]

\* _get_space_key's verdict on the n results of its search
space_key_found(n) == IF n = 1 THEN "ok"
                      ELSE IF n > 1 THEN "DuplicateSpace" ELSE "SpaceNotFound"

\* _verify_space_key's verdict on the n results of its query
space_key_verified(n) == IF n # 1 THEN "SpaceKeyNotFound" ELSE "ok"

\* A faulty variant of pageid_found: the first result taken unchecked, as the script
\* client.py beside the package does
pageid_found_unchecked(n) == IF n # 0 THEN "ok" ELSE "IndexError"

\* _get_pageid's verdict on the n results of its query
pageid_found(n) == IF n # 0 THEN "ok" ELSE "PageNotFound"

\* A faulty variant of ancestors: the entry written whether or not a parent is named
ancestors_always(parent_page_name, parent_page_id) == <<parent_page_id>>

\* add_page's ancestors entry
ancestors(parent_page_name, parent_page_id) ==
    IF Truthy(parent_page_name) THEN <<parent_page_id>> ELSE <<>>

\* Faulty variants of next_version: the fetched number sent back as it is, and a step of two
next_version_same(page_info_dict) == page_info_dict.number

next_version_skip(page_info_dict) == page_info_dict.number + 2

\* version.number of the update payload
next_version(page_info_dict) == page_info_dict.number + 1

\* A public method is called: its arguments are checked, nothing is sent yet
CallOf(c, callset) ==
    /\ pc[c] = "idle"
    /\ calls < MaxCalls
    /\ \E o \in callset :
        /\ o.name \in {"add_page", "upload_attachment"} => nextId < 10 + MaxNewContent
        /\ op' = [op EXCEPT ![c] = o]
        /\ IF Asserts(o)
           THEN /\ pc' = [pc EXCEPT ![c] = IF o.name = "add_page" THEN "space1" ELSE "space"]
                /\ result' = [result EXCEPT ![c] = NoResult]
           ELSE /\ pc' = [pc EXCEPT ![c] = "done"]
                /\ result' = [result EXCEPT ![c] = Raised("AssertionError")]
    /\ calls' = calls + 1
    /\ UNCHANGED <<pages, attachments, nextId, ap_space_key, space_key, pageid,
                   page_info, attachmentid, sent, reqs, stdout, last>>
    /\ UNCHANGED <<builder_vars, obj>>

\* The caller has the outcome; the frame of the call is gone.  Of a call of
\* the kinds in kept that returned, the caller keeps what it asked for and
\* what came back.
ReturnKeeping(c, kept) ==
    /\ pc[c] = "done"
    /\ pc' = [pc EXCEPT ![c] = "idle"]
    /\ last' = [last EXCEPT ![c] =
                   IF op[c].name \in kept /\ result[c].kind = "returned"
                   THEN [name |-> op[c].name, page_name |-> op[c].page_name,
                         space_name |-> op[c].space_name,
                         space_name_as_key |-> op[c].space_name_as_key,
                         pageid |-> pageid[c], number |-> page_info[c].number,
                         status |-> result[c].status, text |-> result[c].text]
                   ELSE NoLast]
    /\ op' = [op EXCEPT ![c] = NoCall]
    /\ ap_space_key' = [ap_space_key EXCEPT ![c] = <<>>]
    /\ space_key' = [space_key EXCEPT ![c] = <<>>]
    /\ pageid' = [pageid EXCEPT ![c] = 0]
    /\ page_info' = [page_info EXCEPT ![c] = NoInfo]
    /\ attachmentid' = [attachmentid EXCEPT ![c] = None]
    /\ sent' = [sent EXCEPT ![c] = NoSent]
    /\ reqs' = [reqs EXCEPT ![c] = <<>>]
    /\ result' = [result EXCEPT ![c] = NoResult]
    /\ stdout' = [stdout EXCEPT ![c] = <<>>]
    /\ UNCHANGED <<pages, attachments, nextId, calls>>
    /\ UNCHANGED <<builder_vars, obj>>

Return(c) == ReturnKeeping(c, {"update_page"})

\* _get_space_key: the key of the space, from its name or verified as given
GetSpaceKey(c) ==
    /\ pc[c] \in {"space1", "space"}
    /\ LET name == op[c].space_name.v
           as_key == Truthy(op[c].space_name_as_key)
           answers == IF as_key THEN SrvSpaceByKey(name)
                      ELSE SrvContentSearch(pages, quote_spaces(name), Limit)
       IN  \E resp \in answers \cup Faults :
            LET n == Len(resp.results)
                key == IF as_key THEN name ELSE rsplit_last(resp.results[1].space, "/")
                exc == IF Parse(resp) # "ok" THEN Parse(resp)
                       ELSE IF as_key THEN space_key_verified(n)
                            ELSE space_key_found(n)
                \* add_page goes on to its parent: _get_pageid asserts its page_name
                exc2 == IF exc = "ok" /\ pc[c] = "space1"
                           /\ Truthy(op[c].parent_page_name)
                           /\ ~isinstance_str(op[c].parent_page_name)
                        THEN "AssertionError" ELSE exc
            IN  /\ reqs' = Log(c, IF as_key THEN "space_verify" ELSE "space_search", resp)
                /\ IF exc2 # "ok"
                   THEN /\ result' = [result EXCEPT ![c] = Raised(exc2)]
                        /\ pc' = [pc EXCEPT ![c] = "done"]
                        /\ ap_space_key' = IF exc = "ok"
                                           THEN [ap_space_key EXCEPT ![c] = key]
                                           ELSE ap_space_key
                        /\ UNCHANGED space_key
                   ELSE /\ UNCHANGED result
                        /\ IF pc[c] = "space1"
                           THEN /\ ap_space_key' = [ap_space_key EXCEPT ![c] = key]
                                /\ UNCHANGED space_key
                                /\ pc' = [pc EXCEPT ![c] =
                                            IF Truthy(op[c].parent_page_name)
                                            THEN "space" ELSE "send"]
                           ELSE /\ space_key' = [space_key EXCEPT ![c] = key]
                                /\ UNCHANGED ap_space_key
                                /\ pc' = [pc EXCEPT ![c] = "page"]
    /\ UNCHANGED <<pages, attachments, nextId, op, pageid, page_info, attachmentid,
                   sent, stdout, last, calls>>
    /\ UNCHANGED <<builder_vars, obj>>

\* _get_pageid after its space lookup: the id of the first page of that title
GetPageId(c) ==
    /\ pc[c] = "page"
    /\ LET page_name == IF op[c].name = "add_page" THEN op[c].parent_page_name.v
                        ELSE op[c].page_name.v
       IN  \E resp \in SrvContentByTitle(pages, quote_spaces(page_name), space_key[c])
                       \cup Faults :
            LET exc == IF Parse(resp) # "ok" THEN Parse(resp)
                       ELSE IF pageid_found(Len(resp.results)) # "ok"
                            THEN pageid_found(Len(resp.results))
                       ELSE IF op[c].name = "upload_attachment"
                               /\ op[c].filepath.v \notin LocalFiles
                            THEN "FileNotFoundError"
                       ELSE "ok"
            IN  /\ reqs' = Log(c, "page_query", resp)
                /\ pageid' = IF Parse(resp) = "ok" /\ pageid_found(Len(resp.results)) = "ok"
                             THEN [pageid EXCEPT ![c] = int(resp.results[1].id)]
                             ELSE pageid
                /\ IF exc # "ok"
                   THEN /\ result' = [result EXCEPT ![c] = Raised(exc)]
                        /\ pc' = [pc EXCEPT ![c] = "done"]
                   ELSE /\ UNCHANGED result
                        /\ pc' = [pc EXCEPT ![c] =
                                    CASE op[c].name = "update_page" -> "version"
                                      [] op[c].name \in {"update_attachment",
                                                         "delete_attachment"} -> "attid"
                                      [] OTHER -> "send"]
    /\ UNCHANGED <<pages, attachments, nextId, op, ap_space_key, space_key, page_info,
                   attachmentid, sent, stdout, last, calls>>
    /\ UNCHANGED <<builder_vars, obj>>

\* _get_version, and update_page reading the answer into its payload
GetVersion(c) ==
    /\ pc[c] = "version"
    /\ \E resp \in SrvContentById(pages, str(pageid[c]))
                   \cup { [status |-> f.status, json |-> f.json, has |-> f.has,
                           title |-> <<>>, number |-> 0, space |-> <<>>] : f \in Faults } :
        /\ reqs' = LogSent(c, "version_get", resp.status)
        /\ IF Parse(resp) # "ok"
           THEN /\ result' = [result EXCEPT ![c] = Raised(Parse(resp))]
                /\ pc' = [pc EXCEPT ![c] = "done"]
                /\ UNCHANGED page_info
           ELSE /\ page_info' = [page_info EXCEPT ![c] =
                                   [title |-> resp.title, space |-> resp.space,
                                    number |-> resp.number]]
                /\ pc' = [pc EXCEPT ![c] = "send"]
                /\ UNCHANGED result
    /\ UNCHANGED <<pages, attachments, nextId, op, ap_space_key, space_key, pageid,
                   attachmentid, sent, stdout, last, calls>>
    /\ UNCHANGED <<builder_vars, obj>>

\* The id of the first listed attachment of that title, None after the loop
FindAttachment(results, attachment_name) ==
    IF \E k \in 1..Len(results) : results[k].title = attachment_name
    THEN Str(results[CHOOSE k \in 1..Len(results) :
                        /\ results[k].title = attachment_name
                        /\ \A j \in 1..(k-1) : results[j].title # attachment_name].id)
    ELSE None

\* _get_attachmentid, and the caller building the url of its request
GetAttachmentId(c) ==
    /\ pc[c] = "attid"
    /\ LET attachment_name == IF op[c].name = "update_attachment"
                              THEN basename(op[c].filepath.v)
                              ELSE op[c].attachment_name.v
       IN  \E resp \in SrvAttachments(pages, attachments, str(pageid[c])) \cup Faults :
            LET found == FindAttachment(resp.results, attachment_name)
                exc == IF Parse(resp) # "ok" THEN Parse(resp)
                       ELSE IF op[c].name = "update_attachment"
                               /\ op[c].filepath.v \notin LocalFiles
                            THEN "FileNotFoundError"
                       ELSE IF ~isinstance_str(found) THEN "TypeError"
                       ELSE "ok"
            IN  /\ reqs' = Log(c, "attachment_list", resp)
                /\ attachmentid' = IF Parse(resp) = "ok"
                                   THEN [attachmentid EXCEPT ![c] = found]
                                   ELSE attachmentid
                /\ stdout' = IF Parse(resp) = "ok" /\ found = None
                             THEN [stdout EXCEPT ![c] = Append(@, "No attachment found")]
                             ELSE stdout
                /\ IF exc # "ok"
                   THEN /\ result' = [result EXCEPT ![c] = Raised(exc)]
                        /\ pc' = [pc EXCEPT ![c] = "done"]
                   ELSE /\ UNCHANGED result
                        /\ pc' = [pc EXCEPT ![c] = "send"]
    /\ UNCHANGED <<pages, attachments, nextId, op, ap_space_key, space_key, pageid,
                   page_info, sent, last, calls>>
    /\ UNCHANGED <<builder_vars, obj>>

\* The call ends with the response of its last request
Finish(c, method, target, data, st, txt) ==
    /\ sent' = [sent EXCEPT ![c] = [method |-> method, target |-> target, data |-> data]]
    /\ reqs' = LogSent(c, method, st)
    /\ result' = [result EXCEPT ![c] = Returned(st, txt)]
    /\ pc' = [pc EXCEPT ![c] = "done"]
    /\ UNCHANGED <<op, ap_space_key, space_key, pageid, page_info, attachmentid,
                   stdout, last, calls>>
    /\ UNCHANGED <<builder_vars, obj>>

\* update_page: the payload and requests.put
Put(c) ==
    /\ pc[c] = "send" /\ op[c].name = "update_page"
    /\ LET data == [NoData EXCEPT !.id = pageid[c],
                                  !.title = Str(page_info[c].title),
                                  !.space = rsplit_last(page_info[c].space, "/"),
                                  !.body = op[c].body,
                                  !.version = next_version(page_info[c])]
           r == SrvUpdate(pages, str(pageid[c]), data)
       IN  \E st \in {r.status} \cup FaultStatus :
            /\ pages' = IF st = r.status THEN r.pages ELSE pages
            /\ Finish(c, "PUT", str(pageid[c]), data, st, <<>>)
    /\ UNCHANGED <<attachments, nextId>>

\* delete_page: requests.delete
Delete(c) ==
    /\ pc[c] = "send" /\ op[c].name = "delete_page"
    /\ LET r == SrvDelete(pages, attachments, str(pageid[c]))
       IN  \E st \in {r.status} \cup FaultStatus :
            /\ pages' = IF st = r.status THEN r.pages ELSE pages
            /\ attachments' = IF st = r.status THEN r.attachments ELSE attachments
            /\ Finish(c, "DELETE", str(pageid[c]), NoData, st, <<>>)
    /\ UNCHANGED nextId

\* get_page_contents: the text of the rendering endpoint's answer
GetContents(c) ==
    /\ pc[c] = "send" /\ op[c].name = "get_page_contents"
    /\ LET r == SrvViewStorage(pages, str(pageid[c]))
       IN  \E st \in {r.status} \cup FaultStatus :
            Finish(c, "GET", str(pageid[c]), NoData, 0,
                   IF st = r.status THEN r.text ELSE ErrorPage)
    /\ UNCHANGED <<pages, attachments, nextId>>

\* add_page: the payload, with the parent's id when one is named, and requests.post
Post(c) ==
    /\ pc[c] = "send" /\ op[c].name = "add_page"
    /\ LET data == [NoData EXCEPT !.title = op[c].page_name,
                                  !.space = ap_space_key[c],
                                  !.body = op[c].body,
                                  !.ancestors = ancestors(op[c].parent_page_name,
                                                          pageid[c])]
           r == SrvCreate(pages, nextId, data)
       IN  \E st \in {r.status} \cup FaultStatus :
            /\ pages' = IF st = r.status THEN r.pages ELSE pages
            /\ nextId' = IF st = 200 THEN nextId + 1 ELSE nextId
            /\ Finish(c, "POST", <<>>, data, st, <<>>)
    /\ UNCHANGED attachments

\* upload_attachment: requests.post of the file
PostAttachment(c) ==
    /\ pc[c] = "send" /\ op[c].name = "upload_attachment"
    /\ LET data == [NoData EXCEPT !.file = op[c].filepath.v,
                                  !.comment = IF Truthy(op[c].comment)
                                              THEN op[c].comment.v ELSE <<>>]
           r == SrvAttach(pages, attachments, nextId, str(pageid[c]), op[c].filepath.v)
       IN  \E st \in {r.status} \cup FaultStatus :
            /\ attachments' = IF st = r.status THEN r.attachments ELSE attachments
            /\ nextId' = IF st = 200 THEN nextId + 1 ELSE nextId
            /\ Finish(c, "POST_attachment", str(pageid[c]), data, st, <<>>)
    /\ UNCHANGED pages

\* update_attachment: requests.post of the file against the attachment's id
PostAttachmentData(c) ==
    /\ pc[c] = "send" /\ op[c].name = "update_attachment"
    /\ LET data == [NoData EXCEPT !.file = op[c].filepath.v,
                                  !.comment = IF Truthy(op[c].comment)
                                              THEN op[c].comment.v ELSE <<>>]
           r == SrvAttachData(pages, attachments, str(pageid[c]), attachmentid[c].v)
       IN  \E st \in {r.status} \cup FaultStatus :
            /\ attachments' = IF st = r.status THEN r.attachments ELSE attachments
            /\ Finish(c, "POST_attachment_data", attachmentid[c].v, data, st, <<>>)
    /\ UNCHANGED <<pages, nextId>>

\* delete_attachment: requests.delete of the attachment's id
DeleteAttachment(c) ==
    /\ pc[c] = "send" /\ op[c].name = "delete_attachment"
    /\ LET r == SrvDelete(pages, attachments, attachmentid[c].v)
       IN  \E st \in {r.status} \cup FaultStatus :
            /\ pages' = IF st = r.status THEN r.pages ELSE pages
            /\ attachments' = IF st = r.status THEN r.attachments ELSE attachments
            /\ Finish(c, "DELETE_attachment", attachmentid[c].v, NoData, st, <<>>)
    /\ UNCHANGED nextId

Call(c) == CallOf(c, Calls)

-----------------------------------------------------------------------------
(* The constructor *)

\* No Confluence object yet
NoObj == [state |-> "none", server |-> None, user |-> None, exc |-> "",
          probes |-> <<>>, stdout |-> <<>>]

\* Confluence(server, auth) once __init__ has returned, the probe answered 200
Constructed == [NoObj EXCEPT !.state = "ready", !.server = Str(<<"h">>),
                             !.user = Str(<<"u">>), !.probes = <<"200">>]

\* auth as passed: whether it is a tuple, its length, its first element
AuthArgs == { [tuple |-> TRUE, len |-> 2, user |-> Str(<<"u">>)],
              [tuple |-> TRUE, len |-> 2, user |-> NotStr],
              [tuple |-> TRUE, len |-> 3, user |-> Str(<<"u">>)],
              [tuple |-> FALSE, len |-> 2, user |-> Str(<<"u">>)] }

ServerArgs == { Str(<<"h">>), NotStr }

\* What requests.get of the probe comes back with: a status, or no answer at
\* all, which requests raises as ConnectionError
ProbeOutcomes == {"200", "401", "500", "unreachable"}

\* __init__ up to the probe: the two asserts, the fields, the probe's url
Construct ==
    /\ obj.state = "none"
    /\ \E server \in ServerArgs, auth \in AuthArgs :
        obj' = IF ~(auth.tuple /\ auth.len = 2) \/ ~isinstance_str(server)
               THEN [obj EXCEPT !.state = "failed", !.exc = "AssertionError"]
               ELSE IF ~isinstance_str(auth.user)
               THEN [obj EXCEPT !.state = "failed", !.exc = "TypeError",
                                !.server = server, !.user = auth.user]
               ELSE [obj EXCEPT !.state = "probe", !.server = server,
                                !.user = auth.user]
    /\ UNCHANGED <<client_vars, builder_vars>>

\* __verify_user: one GET; any status but 200 is printed, nothing is caught
VerifyUser ==
    /\ obj.state = "probe"
    /\ \E outcome \in ProbeOutcomes :
        obj' = [obj EXCEPT
                  !.probes = Append(@, outcome),
                  !.state = IF outcome = "unreachable" THEN "failed" ELSE "ready",
                  !.exc = IF outcome = "unreachable" THEN "ConnectionError" ELSE "",
                  !.stdout = IF outcome \notin {"200", "unreachable"}
                             THEN Append(@, "Couldn't connect")
                             ELSE @]
    /\ UNCHANGED <<client_vars, builder_vars>>

\* The caller lets go of the object, or of the failed attempt
Discard ==
    /\ obj.state \in {"ready", "failed"}
    /\ \A c \in Clients : pc[c] = "idle"
    /\ calls < MaxCalls
    /\ obj' = NoObj
    /\ calls' = calls + 1
    /\ UNCHANGED <<pages, attachments, nextId, pc, op, ap_space_key, space_key, pageid,
                   page_info, attachmentid, sent, reqs, result, stdout, last,
                   builder_vars>>

\* A method of the object, once there is one
ObjectCall(c) ==
    /\ obj.state = "ready"
    /\ CallOf(c, { o \in ValidCalls : o.name = "get_page_contents" })

-----------------------------------------------------------------------------
(* The page builder (src/confluenceapi/pagebuilder.py): self.html and the   *)
(* methods that append to it.  The templates are the source's, character    *)
(* for character, the indentation inside the triple quotes included.        *)

MaxBuilderCalls == 2

\* A string literal as a Python string of this model
Chars(s) == [i \in 1..Len(s) |-> SubSeq(s, i, i)]

PyInt(n) == [t |-> "int", v |-> str(n)]
\* A pandas.DataFrame, known by the one cell it holds
DataFrame(cell) == [t |-> "df", v |-> cell]

isinstance_int(x) == x.t \in {"int", "bool"}
isinstance_DataFrame(x) == x.t = "df"

\* What {{ x }} puts into the output: str(x)
pystr(x) == CASE x.t = "none" -> Chars("None")
              [] x.t = "bool" -> IF x.v # <<>> THEN Chars("True") ELSE Chars("False")
              [] OTHER -> x.v

\* df.to_html(escape=...): the table pandas writes, cells escaped or not
to_html(df, escape) ==
    Chars("<table><td>")
    \o (IF Truthy(escape) THEN replace(df.v, "<", Chars("&lt;")) ELSE df.v)
    \o Chars("</td></table>")

Headings == { <<"h", Digits[d + 1]>> : d \in 1..7 }
WarningTypes == { Chars("warning"), Chars("note"), Chars("tip"), Chars("info") }
GraphTypes == { Chars("bar"), Chars("pie"), Chars("line"), Chars("area") }
TocTypes == { Chars("list"), Chars("flat") }

\* The last method called on the builder: its name and arguments, what it
\* raised or returned, self.html before it; and the method called before it,
\* with its arguments and self.html before that one
NoBuilt == [name |-> "", args |-> <<>>, exc |-> "", before |-> <<>>, ret |-> None,
            prev |-> "", pargs |-> <<>>, pbefore |-> <<>>, n |-> 0]

\* The template of add_title, rendered
add_title_html(title, heading) ==
    Chars("\n")
    \o Chars("            <")
    \o pystr(heading)
    \o Chars(">")
    \o pystr(title)
    \o Chars("</")
    \o pystr(heading)
    \o Chars(">\n")
    \o Chars("            ")

\* The template of add_chart, rendered
add_chart_html(title, html_df, graph_type) ==
    Chars("\n")
    \o Chars("                <ac:structured-macro ac:name=\"chart\">\n")
    \o Chars("                ")
    \o (IF Truthy(title)
      THEN Chars("<ac:parameter ac:name=\"title\">") \o pystr(title) \o Chars("</ac:parameter>")
      ELSE <<>>)
    \o Chars("\n")
    \o Chars("                <ac:parameter ac:name=\"type\">")
    \o pystr(graph_type)
    \o Chars("</ac:parameter>\n")
    \o Chars("                <ac:rich-text-body>")
    \o pystr(html_df)
    \o Chars("</ac:rich-text-body>\n")
    \o Chars("                </ac:structured-macro>\n")
    \o Chars("                ")

\* The template of add_warning, rendered
add_warning_html(text, warning_type, icon, title) ==
    Chars("\n")
    \o Chars("                <ac:structured-macro ac:name=\"")
    \o pystr(warning_type)
    \o Chars("\">\n")
    \o Chars("                ")
    \o (IF Truthy(title)
      THEN Chars("<ac:parameter ac:name=\"title\">") \o pystr(title) \o Chars("</ac:parameter>")
      ELSE <<>>)
    \o Chars("\n")
    \o Chars("                ")
    \o (IF icon = Bool(FALSE)
      THEN Chars("<ac:parameter ac:name=\"icon\">false</ac:parameter>")
      ELSE <<>>)
    \o Chars("\n")
    \o Chars("                <ac:rich-text-body>")
    \o pystr(text)
    \o Chars("</ac:rich-text-body>\n")
    \o Chars("                </ac:structured-macro>\n")
    \o Chars("                ")

\* The template of add_code_block, rendered
add_code_block_html(code, title, theme, linenumbers, language, collapse) ==
    Chars("\n")
    \o Chars("                                                        <ac:structured-macro ac:name=\"code\">\n")
    \o Chars("                                                        ")
    \o (IF Truthy(title)
      THEN Chars("<ac:parameter ac:name=\"title\">") \o pystr(title) \o Chars("</ac:parameter>")
      ELSE <<>>)
    \o Chars("\n")
    \o Chars("                                                        ")
    \o (IF Truthy(theme)
      THEN Chars("<ac:parameter ac:name=\"theme\">") \o pystr(theme) \o Chars("</ac:parameter>")
      ELSE <<>>)
    \o Chars("\n")
    \o Chars("                                                        ")
    \o (IF linenumbers = Bool(TRUE)
      THEN Chars("<ac:parameter ac:name=\"linenumbers\">true</ac:parameter>")
      ELSE <<>>)
    \o Chars("\n")
    \o Chars("                                                        ")
    \o (IF Truthy(language)
      THEN Chars("<ac:parameter ac:name=\"language\">") \o pystr(language) \o Chars("</ac:parameter>")
      ELSE <<>>)
    \o Chars("\n")
    \o Chars("                                                        ")
    \o (IF collapse = Bool(TRUE)
      THEN Chars("<ac:parameter ac:name=\"collapse\">true</ac:parameter>")
      ELSE <<>>)
    \o Chars("\n")
    \o Chars("                                                        <ac:plain-text-body><![CDATA[")
    \o pystr(code)
    \o Chars("]]></ac:plain-text-body>\n")
    \o Chars("                                                        </ac:structured-macro>\n")
    \o Chars("                                                        ")

\* The template of add_tag_user, rendered
add_tag_user_html(username) ==
    Chars("\n")
    \o Chars("                <ac:link><ri:user ri:username=\"")
    \o pystr(username)
    \o Chars("\"/></ac:link>\n")
    \o Chars("                ")

\* The template of add_page_link, rendered
add_page_link_html(page, space) ==
    Chars("\n")
    \o Chars("                <ac:link><ri:page ri:space-key=\"")
    \o pystr(space)
    \o Chars("\" ri:content-title=\"")
    \o pystr(page)
    \o Chars("\"/></ac:link>\n")
    \o Chars("                ")

\* The template of add_pdf_preview, rendered
add_pdf_preview_html(filename) ==
    Chars("\n")
    \o Chars("                <ac:structured-macro ac:name=\"viewpdf\">\n")
    \o Chars("                <ac:parameter ac:name=\"name\"><ri:attachment ri:filename=\"")
    \o pystr(filename)
    \o Chars("\"/></ac:parameter>\n")
    \o Chars("                </ac:structured-macro>\n")
    \o Chars("                ")

\* The template of add_table_of_contents, rendered
add_table_of_contents_html(style, outline, printable, max_level, indent, min_level, exclude, toc_type, include) ==
    Chars("\n")
    \o Chars("            <ac:structured-macro ac:name=\"toc\">\n")
    \o Chars("            <ac:parameter ac:name=\"printable\">")
    \o pystr(printable)
    \o Chars("</ac:parameter>\n")
    \o Chars("            <ac:parameter ac:name=\"style\">")
    \o pystr(style)
    \o Chars("</ac:parameter>\n")
    \o Chars("            <ac:parameter ac:name=\"maxLevel\">")
    \o pystr(max_level)
    \o Chars("</ac:parameter>\n")
    \o Chars("            <ac:parameter ac:name=\"indent\">")
    \o pystr(indent)
    \o Chars("</ac:parameter>\n")
    \o Chars("            <ac:parameter ac:name=\"minLevel\">")
    \o pystr(min_level)
    \o Chars("</ac:parameter>\n")
    \o Chars("            ")
    \o (IF Truthy(exclude)
      THEN Chars("<ac:parameter ac:name=\"exclude\">") \o pystr(exclude) \o Chars("</ac:parameter>")
      ELSE <<>>)
    \o Chars("\n")
    \o Chars("            <ac:parameter ac:name=\"type\">")
    \o pystr(toc_type)
    \o Chars("</ac:parameter>\n")
    \o Chars("            <ac:parameter ac:name=\"outline\">")
    \o pystr(outline)
    \o Chars("</ac:parameter>\n")
    \o Chars("            ")
    \o (IF Truthy(include)
      THEN Chars("<ac:parameter ac:name=\"include\">") \o pystr(include) \o Chars("</ac:parameter>")
      ELSE <<>>)
    \o Chars("\n")
    \o Chars("            </ac:structured-macro>\n")
    \o Chars("            ")


\* A faulty variant of Check: the condition is not looked at
Unchecked(b) == ""

\* An assert statement: passes, or raises AssertionError
Check(b) == IF b THEN "" ELSE "AssertionError"

\* A method of the builder has run: with no exception the fragment is appended
\* to self.html, with one self.html is as it was.  The script is sequential:
\* the builder is used between client calls, not during one.
Build(name, args, exc, fragment) ==
    /\ \A c \in Clients : pc[c] = "idle"
    /\ built.n < MaxBuilderCalls
    /\ html' = IF exc = "" THEN html \o fragment ELSE html
    /\ built' = [name |-> name, args |-> args, exc |-> exc, before |-> html,
                 ret |-> None, prev |-> built.name, pargs |-> built.args,
                 pbefore |-> built.before,
                 n |-> built.n + 1]
    /\ UNCHANGED <<client_vars, obj>>

add_title_call(title, heading) ==
    Build("add_title", <<title, heading>>,
          Check(isinstance_str(title)
                /\ isinstance_str(heading) /\ heading.v \in Headings),
          add_title_html(title, heading))

add_title ==
    \E title \in {Str(<<"X">>), NotStr},
       heading \in {Str(<<"h", "1">>), Str(<<"h", "2">>), Str(<<"h", "8">>), NotStr} :
        add_title_call(title, heading)

add_new_line == Build("add_new_line", <<>>, "", Chars("<br></br>"))

add_table_call(df, escape) ==
    Build("add_table", <<df, escape>>, Check(isinstance_DataFrame(df)),
          to_html(df, escape))

add_table ==
    \E df \in {DataFrame(<<"1">>), DataFrame(<<"<">>), NotStr},
       escape \in {Bool(FALSE), Bool(TRUE)} :
        add_table_call(df, escape)

add_chart ==
    \E df \in {DataFrame(<<"1">>), NotStr},
       graph_type \in {Str(Chars("bar")), Str(Chars("donut")), NotStr},
       title \in {None, Str(<<"T">>), NotStr} :
        Build("add_chart", <<df, graph_type, title>>,
              Check(/\ isinstance_DataFrame(df)
                    /\ isinstance_str(graph_type) /\ graph_type.v \in GraphTypes
                    /\ (isinstance_str(title) \/ title = None)),
              add_chart_html(title, Str(to_html(df, Bool(TRUE))), graph_type))

add_warning_call(text, warning_type, title, icon) ==
    Build("add_warning", <<text, warning_type, title, icon>>,
          Check(/\ warning_type.v \in WarningTypes /\ isinstance_str(warning_type)
                /\ (isinstance_str(title) \/ title = None)
                /\ isinstance_bool(icon)),
          add_warning_html(text, warning_type, icon, title))

add_warning ==
    \E text \in {Str(<<"w">>), NotStr},
       warning_type \in {Str(Chars("warning")), Str(Chars("note")),
                         Str(Chars("bogus")), NotStr},
       title \in {None, Str(<<"T">>)},
       icon \in {Bool(TRUE), Bool(FALSE), NotStr} :
        add_warning_call(text, warning_type, title, icon)

add_code_block ==
    \E code \in {Str(<<"c">>), NotStr},
       title \in {None, Str(<<"T">>)},
       linenumbers \in {Bool(FALSE), Bool(TRUE)},
       language \in {None, Str(<<"p", "y">>)},
       collapse \in {Bool(FALSE), NotStr} :
        LET theme == None
        IN  Build("add_code_block",
                  <<code, title, theme, linenumbers, language, collapse>>,
                  Check(/\ isinstance_str(code)
                        /\ (isinstance_str(title) \/ title = None)
                        /\ (isinstance_str(theme) \/ theme = None)
                        /\ isinstance_bool(linenumbers)
                        /\ (isinstance_str(language) \/ language = None)
                        /\ isinstance_bool(collapse)),
                  add_code_block_html(code, title, theme, linenumbers, language,
                                      collapse))

add_tag_user ==
    \E username \in {Str(<<"u">>), NotStr} :
        Build("add_tag_user", <<username>>, Check(isinstance_str(username)),
              add_tag_user_html(username))

\* The names add_page_link can read: its parameters and the module's imports
add_page_link_names == {"self", "page_name", "space_key", "Template", "pd"}

\* Reading a name that is not among them raises NameError
Lookup(name, names) == IF name \in names THEN "" ELSE "NameError"

\* add_page_link takes page_name and space_key; its body reads page and space
add_page_link ==
    \E page_name \in {Str(<<"P">>), NotStr}, space_key_ \in {Str(DS)} :
        LET exc == IF Lookup("page", add_page_link_names) # ""
                   THEN Lookup("page", add_page_link_names)
                   ELSE IF Lookup("space", add_page_link_names) # ""
                   THEN Lookup("space", add_page_link_names)
                   ELSE Check(isinstance_str(page_name) /\ isinstance_str(space_key_))
        IN  Build("add_page_link", <<page_name, space_key_>>, exc,
                  add_page_link_html(page_name, space_key_))

add_pdf_preview ==
    \E filename \in {Str(<<"f">>), NotStr} :
        Build("add_pdf_preview", <<filename>>, Check(isinstance_str(filename)),
              add_pdf_preview_html(filename))

add_table_of_contents ==
    \E toc_type \in {Str(Chars("list")), Str(Chars("tree")), NotStr},
       exclude \in {None, Str(<<"x">>)},
       printable \in {Bool(TRUE), NotStr} :
        LET min_level == PyInt(1)
            max_level == PyInt(7)
            style == Str(Chars("disc"))
            outline == Bool(FALSE)
            indent == Str(Chars("0px"))
            include == None
        IN  Build("add_table_of_contents",
                  <<toc_type, min_level, max_level, style, outline, indent, exclude,
                    include, printable>>,
                  Check(/\ isinstance_str(toc_type) /\ toc_type.v \in TocTypes
                        /\ isinstance_int(min_level) /\ isinstance_int(max_level)
                        /\ isinstance_str(style) /\ isinstance_bool(outline)
                        /\ isinstance_str(indent)
                        /\ (isinstance_str(exclude) \/ exclude = None)
                        /\ (isinstance_str(include) \/ include = None)
                        /\ isinstance_bool(printable)),
                  add_table_of_contents_html(style, outline, printable, max_level,
                                             indent, min_level, exclude, toc_type,
                                             include))

add_custom_html ==
    \E custom \in {Str(<<"a">>), Str(<<>>), NotStr} :
        Build("add_custom_html", <<custom>>, Check(isinstance_str(custom)), custom.v)

\* A faulty variant of restart: self.html is left as it is
restart_keeps(self_html) == self_html

\* restart: self.html = ""
restart_html(self_html) == <<>>

\* A faulty variant of render: nothing of what was accumulated is returned
render_nothing(self_html) == <<>>

\* render: return self.html
render_html(self_html) == self_html

restart ==
    /\ \A c \in Clients : pc[c] = "idle"
    /\ built.n < MaxBuilderCalls + 2
    /\ html' = restart_html(html)
    /\ built' = [name |-> "restart", args |-> <<>>, exc |-> "", before |-> html,
                 ret |-> None, prev |-> built.name, pargs |-> built.args,
                 pbefore |-> built.before,
                 n |-> built.n + 1]
    /\ UNCHANGED <<client_vars, obj>>

render ==
    /\ \A c \in Clients : pc[c] = "idle"
    /\ built.n < MaxBuilderCalls + 2
    /\ built' = [name |-> "render", args |-> <<>>, exc |-> "", before |-> html,
                 ret |-> Str(render_html(html)), prev |-> built.name,
                 pargs |-> built.args, pbefore |-> built.before, n |-> built.n + 1]
    /\ UNCHANGED <<html, client_vars, obj>>

-----------------------------------------------------------------------------
(* Specifications *)

Page(title, space, parent) ==
    [title |-> title, space |-> space, version |-> 1, body |-> <<"i">>, parent |-> parent]

InitCalls ==
    /\ pages = (6 :> Page(<<"A">>, E1, 0)) @@ (7 :> Page(<<"A", " ", "B">>, E2, 0))
               @@ (8 :> Page(<<"A", " ", "B">>, DS, 0))
               @@ (9 :> Page(<<"A">>, DS, 8))
    /\ attachments = (5 :> [page |-> 8, title |-> <<"f">>, version |-> 1])
    /\ nextId = 10
    /\ pc = [c \in Clients |-> "idle"]
    /\ op = [c \in Clients |-> NoCall]
    /\ ap_space_key = [c \in Clients |-> <<>>]
    /\ space_key = [c \in Clients |-> <<>>]
    /\ pageid = [c \in Clients |-> 0]
    /\ page_info = [c \in Clients |-> NoInfo]
    /\ attachmentid = [c \in Clients |-> None]
    /\ sent = [c \in Clients |-> NoSent]
    /\ reqs = [c \in Clients |-> <<>>]
    /\ result = [c \in Clients |-> NoResult]
    /\ stdout = [c \in Clients |-> <<>>]
    /\ last = [c \in Clients |-> NoLast]
    /\ calls = 0
    /\ html = <<>>
    /\ built = NoBuilt

Init == InitCalls /\ obj = Constructed

\* One caller: the library is synchronous, a call ends before the next starts
Next ==
    \E c \in {1} :
        \/ Call(c)
        \/ Return(c)
        \/ GetSpaceKey(c)
        \/ GetPageId(c)
        \/ GetVersion(c)
        \/ GetAttachmentId(c)
        \/ Put(c)
        \/ Delete(c)
        \/ GetContents(c)
        \/ Post(c)
        \/ PostAttachment(c)
        \/ PostAttachmentData(c)
        \/ DeleteAttachment(c)

Spec == Init /\ [][Next]_vars

UpdateCall(c) == CallOf(c, UpdateCalls(Bodies[c]))

\* Two callers, each its own process with its own client object, updating
\* pages of the same server: their round trips interleave
NextConcurrent ==
    \E c \in Clients :
        \/ UpdateCall(c)
        \/ Return(c)
        \/ GetSpaceKey(c)
        \/ GetPageId(c)
        \/ GetVersion(c)
        \/ Put(c)

SpecConcurrent == Init /\ [][NextConcurrent]_vars

\* A caller constructing the client and then reading pages with it
InitConstruct == InitCalls /\ obj = NoObj

NextConstruct ==
    \/ Construct
    \/ VerifyUser
    \/ Discard
    \/ \E c \in {1} :
        \/ ObjectCall(c)
        \/ Return(c)
        \/ GetSpaceKey(c)
        \/ GetPageId(c)
        \/ GetContents(c)

SpecConstruct == InitConstruct /\ [][NextConstruct]_vars

\* A script building a page
NextBuilder ==
    \/ add_title
    \/ add_new_line
    \/ add_table
    \/ add_chart
    \/ add_warning
    \/ add_code_block
    \/ add_tag_user
    \/ add_page_link
    \/ add_pdf_preview
    \/ add_table_of_contents
    \/ add_custom_html
    \/ restart
    \/ render

SpecBuilder == Init /\ [][NextBuilder]_vars

\* lc.update_page(page, space, cp.render()) on a page of space 'D S'
UpdateRendered(c) == CallOf(c, UpdateCalls(render_html(html)))

\* The builder calls of the script: a title, a table, a warning
ScriptTitle == add_title_call(Str(<<"X">>), Str(<<"h", "2">>))
ScriptTable == add_table_call(DataFrame(<<"1">>), Bool(FALSE))
ScriptWarning == add_warning_call(Str(<<"w">>), Str(Chars("note")), Str(<<"T">>),
                                  Bool(TRUE))

\* A script that builds markup and updates a page with it
NextEndToEnd ==
    \/ ScriptTitle
    \/ ScriptTable
    \/ ScriptWarning
    \/ restart
    \/ \E c \in {1} :
        \/ UpdateRendered(c)
        \/ Return(c)
        \/ GetSpaceKey(c)
        \/ GetPageId(c)
        \/ GetVersion(c)
        \/ Put(c)

SpecEndToEnd == Init /\ [][NextEndToEnd]_vars

\* One caller deleting and reading pages, and calling again: the caller holds
\* on to what a delete or a read returned
RepeatCalls == { o \in ValidCalls : o.name \in {"delete_page", "get_page_contents"} }

RepeatCall(c) == CallOf(c, RepeatCalls)

ReturnRepeat(c) == ReturnKeeping(c, {"delete_page", "get_page_contents"})

NextRepeat ==
    \E c \in {1} :
        \/ RepeatCall(c)
        \/ ReturnRepeat(c)
        \/ GetSpaceKey(c)
        \/ GetPageId(c)
        \/ Delete(c)
        \/ GetContents(c)

SpecRepeat == Init /\ [][NextRepeat]_vars

-----------------------------------------------------------------------------
(* The claims *)

\* C1: every PUT of update_page goes to the resolved page with version.number
\* one above the number the version fetch returned for it; and when one caller's
\* update of a page is followed by that caller's next update of the same page,
\* nobody else writing and the server answering, both are accepted and the page
\* stands two versions above the number the first update fetched.
C1_UpdateSubmitsNextVersion ==
    \A c \in Clients :
        /\ sent[c].method = "PUT" =>
              /\ sent[c].target = str(pageid[c])
              /\ sent[c].data.id = pageid[c]
              /\ sent[c].data.version = page_info[c].number + 1
        /\ ( /\ pc[c] = "done" /\ op[c].name = "update_page"
             /\ result[c].kind = "returned" /\ result[c].status \notin FaultStatus
             /\ last[c].name = "update_page" /\ last[c].pageid = pageid[c]
             /\ last[c].status \notin FaultStatus )
           => /\ last[c].status = 200
              /\ result[c].status = 200
              /\ page_info[c].number = last[c].number + 1
              /\ pages[pageid[c]].version = last[c].number + 2

C1_Witness ==
    \E c \in Clients :
        /\ pc[c] = "done" /\ op[c].name = "update_page" /\ result[c].status = 200
        /\ last[c].name = "update_page" /\ last[c].pageid = pageid[c]
        /\ last[c].status = 200
        /\ pages[pageid[c]].version = last[c].number + 2

Puts(c) == { i \in 1..Len(reqs[c]) : reqs[c][i].req = "PUT" }

\* C2: two callers whose updates of one page both fetched version v before
\* either wrote: both submit v+1, the server accepts one and answers the other
\* with a conflict, which that caller gets back as an ordinary response after
\* its single PUT (no exception, no second PUT), and the page stands at v+1
\* with the accepted caller's body.
C2_StaleUpdateRejectedByServer ==
    \A c, d \in Clients :
        ( /\ c # d /\ pc[c] = "done" /\ pc[d] = "done"
          /\ sent[c].method = "PUT" /\ sent[d].method = "PUT"
          /\ pageid[c] = pageid[d]
          /\ page_info[c].number = page_info[d].number
          /\ result[c].status \notin FaultStatus
          /\ result[d].status \notin FaultStatus )
        => /\ sent[c].data.version = page_info[c].number + 1
           /\ sent[d].data.version = page_info[c].number + 1
           /\ {result[c].status, result[d].status} = {200, 409}
           /\ result[c].kind = "returned" /\ result[d].kind = "returned"
           /\ Cardinality(Puts(c)) = 1 /\ Cardinality(Puts(d)) = 1
           /\ pages[pageid[c]].version = page_info[c].number + 1
           /\ pages[pageid[c]].body = IF result[c].status = 200 THEN op[c].body.v
                                      ELSE op[d].body.v

C2_Witness ==
    /\ pc[1] = "done" /\ pc[2] = "done"
    /\ sent[1].method = "PUT" /\ sent[2].method = "PUT"
    /\ pageid[1] = pageid[2] /\ page_info[1].number = page_info[2].number
    /\ result[1].status = 409 /\ result[2].status = 200
    /\ pages[pageid[2]].body = op[2].body.v /\ op[1].body # op[2].body

\* The spaces of a display name, and the pages of a title in them
NamedSpaces(name) == { sp \in Spaces : sp.name = name }

MatchingPages(title, name) ==
    { i \in DOMAIN pages : pages[i].title = title
                           /\ \E sp \in NamedSpaces(name) : sp.key = pages[i].space }

Answered(c) == \A i \in 1..Len(reqs[c]) : reqs[c][i].status \notin FaultStatus

\* _get_pageid of a call by space name has just ended, the server answering
Resolved(c) ==
    /\ op[c].name \notin {"", "add_page"}
    /\ Asserts(op[c])
    /\ ~Truthy(op[c].space_name_as_key)
    /\ Answered(c)
    /\ \/ Len(reqs[c]) = 1 /\ pc[c] = "done"
       \/ Len(reqs[c]) = 2 /\ reqs[c][2].req = "page_query"

\* C3 (as claimed): when the named space is the only one of its name and
\* holds exactly one page of the title, _get_pageid returns that page's id.
C3_ResolvesTheMatchingPage ==
    \A c \in Clients :
        ( /\ Resolved(c)
          /\ Cardinality(NamedSpaces(op[c].space_name.v)) = 1
          /\ Cardinality(MatchingPages(op[c].page_name.v, op[c].space_name.v)) = 1 )
        => pageid[c] \in MatchingPages(op[c].page_name.v, op[c].space_name.v)

C5_SharedNameIsAmbiguous ==
    \A c \in Clients :
        ( /\ reqs[c] # <<>> /\ reqs[c][1].req = "space_search"
          /\ reqs[c][1].status \notin FaultStatus
          /\ Cardinality(NamedSpaces(op[c].space_name.v)) > 1 )
        => pc[c] = "done" /\ result[c] = Raised("DuplicateSpace")

\* The pages update_page is asked for: of that title, in the spaces of that
\* name or in the space of that key
AskedPages(o) ==
    IF Truthy(o.space_name_as_key)
    THEN { i \in DOMAIN pages : pages[i].title = o.page_name.v
                                /\ pages[i].space = o.space_name.v }
    ELSE MatchingPages(o.page_name.v, o.space_name.v)

UpdateSteps == << {"space_search", "space_verify"}, {"page_query"}, {"version_get"}, {"PUT"} >>

\* The requests of an update come in the order space lookup, page lookup,
\* version fetch, PUT, and the PUT follows three answered lookups.
C6_UpdateOrder ==
    \A c \in Clients : op[c].name = "update_page" =>
        /\ Len(reqs[c]) <= 4
        /\ \A i \in 1..Len(reqs[c]) :
              /\ reqs[c][i].req \in UpdateSteps[i]
              /\ reqs[c][i].req = "PUT" =>
                    /\ i = 4
                    /\ \A j \in 1..3 : reqs[c][j].status = 200

\* C6 (as claimed): the order above, and an update of a (title, space) the
\* server has no page for fails.
C6_UpdateOfMissingPageFails ==
    /\ C6_UpdateOrder
    /\ \A c \in Clients :
        ( /\ pc[c] = "done" /\ op[c].name = "update_page" /\ Asserts(op[c])
          /\ Answered(c)
          /\ AskedPages(op[c]) = {} )
        => /\ result[c].kind = "raised"
           /\ Puts(c) = {}

\* C7: the POST of add_page names as its one ancestor the id the page query
\* for the parent listed first when a parent title is given, and names no
\* ancestor, and asks for no page, when none is given.
C7_AncestorIsResolvedParent ==
    \A c \in Clients : sent[c].method = "POST" =>
        IF Truthy(op[c].parent_page_name)
        THEN /\ Len(reqs[c]) = 4
             /\ reqs[c][3].req = "page_query" /\ reqs[c][3].first # <<>>
             /\ sent[c].data.ancestors = << int(reqs[c][3].first) >>
        ELSE /\ sent[c].data.ancestors = <<>>
             /\ \A i \in 1..Len(reqs[c]) : reqs[c][i].req # "page_query"

C7_Witness ==
    \E c \in Clients :
        /\ sent[c].method = "POST" /\ result[c].status = 200
        /\ op[c].parent_page_name = Str(<<"A", " ", "B">>)
        /\ sent[c].data.ancestors = <<8>>
        /\ \E i \in DOMAIN pages : i >= 10 /\ pages[i].parent = 8

\* C8 (as claimed): update_attachment of a file that is on disk, finding no
\* attachment of its name on the page, prints the miss and raises nothing.
C8_MissingAttachmentIsSilent ==
    \A c \in Clients :
        ( /\ pc[c] = "done" /\ op[c].name = "update_attachment"
          /\ op[c].filepath.v \in LocalFiles
          /\ stdout[c] = <<"No attachment found">> )
        => result[c].kind # "raised"

BadArgument(o) == \E f \in Params(o.name) : o[f] = NotStr

\* C9 (as claimed): a call with an argument of the wrong type ends with an
\* AssertionError, and an AssertionError is raised before any request.
C9_InvalidArgumentBeforeAnyRequest ==
    \A c \in Clients :
        /\ BadArgument(op[c]) => reqs[c] = <<>>
        /\ (pc[c] = "done" /\ BadArgument(op[c])) => result[c] = Raised("AssertionError")
        /\ result[c].exc = "AssertionError" => reqs[c] = <<>>

Failed(c) == { i \in 1..Len(reqs[c]) : reqs[c][i].status \notin 200..299 }

\* C10 (as claimed): a call one of whose requests was answered with a
\* non-2xx status ends there, and its outcome carries that status.
C10_RemoteFailureReachesCaller ==
    \A c \in Clients : \A i \in Failed(c) :
        /\ i = Len(reqs[c]) /\ pc[c] = "done"
        /\ result[c].status = reqs[c][i].status

-----------------------------------------------------------------------------

\* The call of c has ended and repeats the call before it: same method, same
\* (title, space)
Again(c) ==
    /\ pc[c] = "done"
    /\ op[c].name = last[c].name
    /\ op[c].page_name = last[c].page_name
    /\ op[c].space_name = last[c].space_name
    /\ op[c].space_name_as_key = last[c].space_name_as_key

\* Every request of the current call was answered without an error status
AllOk(c) == \A i \in DOMAIN reqs[c] : reqs[c][i].status \in {0, 200, 204}

-----------------------------------------------------------------------------

\* The page_query of the current call was answered with this id first
AnsweredNow(c, id) ==
    \E i \in DOMAIN reqs[c] :
        /\ reqs[c][i].req = "page_query"
        /\ reqs[c][i].status = 200
        /\ reqs[c][i].first = str(id)

\* C12: a call starts with no space key and no page id; the page id it then
\* holds is the one the server answered to the page query of this very call,
\* and, until the call's own mutating request, the id of a page the server
\* holds now, in the space whose key this call resolved
C12_ResolvedAfresh ==
    \A c \in Clients :
        /\ pc[c] \in {"idle", "space1"} =>
                pageid[c] = 0 /\ space_key[c] = <<>> /\ ap_space_key[c] = <<>>
        /\ pc[c] = "space" => pageid[c] = 0 /\ space_key[c] = <<>>
        /\ pageid[c] # 0 => AnsweredNow(c, pageid[c])
        /\ (pc[c] \in {"version", "attid", "send"} /\ pageid[c] # 0) =>
                /\ pageid[c] \in DOMAIN pages
                /\ pages[pageid[c]].space = space_key[c]

\* Page 'A' of space DS was deleted and created again under a new id, and a
\* later call for ('A', 'D S') holds the new id
C12_Witness ==
    \E c \in Clients :
        /\ 9 \notin DOMAIN pages
        /\ pc[c] \in {"version", "attid", "send", "done"}
        /\ op[c].name # "add_page"
        /\ op[c].page_name = Str(<<"A">>)
        /\ pageid[c] # 0
        /\ pageid[c] \in DOMAIN pages
        /\ pages[pageid[c]].title = <<"A">> /\ pages[pageid[c]].space = DS

-----------------------------------------------------------------------------

\* C13: once the constructor's probe has been made, whatever came of it, there
\* was one probe, the object is constructed and usable, and an outcome other
\* than 200 has been reported on stdout
C13_ProbeIsNonFatal ==
    obj.probes # <<>> =>
        /\ Len(obj.probes) = 1
        /\ obj.state = "ready"
        /\ obj.exc = ""
        /\ obj.probes[1] # "200" => obj.stdout # <<>>

-----------------------------------------------------------------------------

-----------------------------------------------------------------------------

FragmentMethods == {"add_title", "add_new_line", "add_table", "add_chart",
                    "add_warning", "add_code_block", "add_tag_user", "add_page_link",
                    "add_pdf_preview", "add_table_of_contents", "add_custom_html"}

\* The arguments are of the documented types and within the documented values
Documented(name, args) ==
    /\ \A i \in DOMAIN args : args[i] # NotStr
    /\ CASE name = "add_title" -> args[2].v \in Headings
         [] name = "add_chart" -> args[2].v \in GraphTypes
         [] name = "add_warning" -> args[2].v \in WarningTypes
         [] name = "add_table_of_contents" -> args[1].v \in TocTypes
         [] OTHER -> TRUE

IsPrefix(s, t) == Len(s) <= Len(t) /\ SubSeq(t, 1, Len(s)) = s

\* C15: the builder starts empty; a fragment method called with valid inputs
\* raises nothing and leaves the previous output as a prefix of the new one;
\* render returns the accumulated output and leaves it as it was
C15_AppendOnly ==
    /\ built.n = 0 => html = <<>>
    /\ (built.name \in FragmentMethods /\ Documented(built.name, built.args)) =>
            /\ built.exc = ""
            /\ IsPrefix(built.before, html)
            /\ built.name # "add_custom_html" => Len(html) > Len(built.before)
    /\ built.name = "render" => (built.ret = Str(html) /\ html = built.before)

-----------------------------------------------------------------------------

-----------------------------------------------------------------------------

\* The call named an enumerated argument outside the values the method allows
OutsideAllowed(name, args) ==
    CASE name = "add_title" -> args[2].v \notin Headings
      [] name = "add_chart" -> args[2].v \notin GraphTypes
      [] name = "add_warning" -> args[2].v \notin WarningTypes
      [] name = "add_table_of_contents" -> args[1].v \notin TocTypes
      [] OTHER -> FALSE

-----------------------------------------------------------------------------

\* C18: on a fresh builder, add_title("X", "h2") and then render() returns
\* <h2>X</h2> and not a character more
C18_TitleMarkupIsExact ==
    (/\ built.name = "render"
     /\ built.prev = "add_title"
     /\ built.pargs = <<Str(<<"X">>), Str(<<"h", "2">>)>>
     /\ built.pbefore = <<>>
     /\ built.n = 2) => built.ret = Str(Chars("<h2>X</h2>"))

-----------------------------------------------------------------------------

MutatingRequests == {"POST", "PUT", "DELETE", "POST_attachment",
                     "POST_attachment_data", "DELETE_attachment"}

\* A lookup that was answered 200 and listed what was asked for
Succeeded(e) ==
    /\ e.req \in {"space_search", "space_verify", "page_query", "version_get",
                  "attachment_list"}
    /\ e.status = 200
    /\ e.req # "version_get" => e.n >= 1

\* The current call of c has sent a mutating request
HasMutated(c) == \E i \in DOMAIN reqs[c] : reqs[c][i].req \in MutatingRequests

\* C19: a mutating request is the last request of its call and every request
\* before it is a lookup that succeeded; a call that raised has sent none; and
\* the server's pages and attachments change only in the step that sends a
\* mutating request
C19_MutatesOnlyAfterResolution ==
    /\ [](\A c \in Clients :
            /\ \A i \in DOMAIN reqs[c] :
                    reqs[c][i].req \in MutatingRequests =>
                        /\ i = Len(reqs[c])
                        /\ \A j \in 1..(i - 1) : Succeeded(reqs[c][j])
            /\ result[c].kind = "raised" => ~HasMutated(c)
            /\ (op[c].name \in {"update_attachment", "delete_attachment"}
                /\ HasMutated(c)) => isinstance_str(attachmentid[c]))
    /\ [][(pages' # pages \/ attachments' # attachments) =>
            \E c \in Clients :
                /\ op[c].name \in {"add_page", "update_page", "delete_page",
                                 "upload_attachment", "update_attachment",
                                 "delete_attachment"}
                /\ ~HasMutated(c)
                /\ reqs'[c] # reqs[c]
                /\ reqs'[c][Len(reqs'[c])].req \in MutatingRequests]_vars

\* delete_attachment found no attachment of that name: nothing was deleted
C19_Witness ==
    \E c \in Clients :
        /\ pc[c] = "done"
        /\ op[c].name = "delete_attachment"
        /\ stdout[c] # <<>>
        /\ result[c].kind = "raised"
        /\ Len(reqs[c]) = 3
        /\ ~HasMutated(c)

-----------------------------------------------------------------------------

\* C20: the PUT of update_page carries the resolved id and the title and space
\* key the page has, as the version fetch returned them; the step changes at
\* most that page, and of it only body and version: title, space, parent, the
\* set of page ids, every other page and every attachment stay as they were
C20_UpdateChangesBodyAndVersionOnly ==
    [][\A c \in Clients :
          (pc[c] = "send" /\ op[c].name = "update_page" /\ pc'[c] = "done") =>
          LET i == pageid[c]
              data == sent'[c].data
          IN  /\ sent'[c].method = "PUT"
              /\ data.id = i
              /\ data.title = Str(page_info[c].title)
              /\ SpacePath(data.space) = page_info[c].space
              /\ data.body = op[c].body
              /\ i \in DOMAIN pages =>
                    /\ data.title.v = pages[i].title
                    /\ data.space = pages[i].space
              /\ DOMAIN pages' = DOMAIN pages
              /\ \A j \in DOMAIN pages :
                    /\ pages'[j].title = pages[j].title
                    /\ pages'[j].space = pages[j].space
                    /\ pages'[j].parent = pages[j].parent
                    /\ j # i => pages'[j] = pages[j]
              /\ result'[c] = Returned(200, <<>>) =>
                    /\ pages'[i].body = op[c].body.v
                    /\ pages'[i].version = pages[i].version + 1
              /\ attachments' = attachments
              /\ nextId' = nextId]_vars

\* An update of a page went through while another page exists, and the page
\* holds the new body under its old title
C20_Witness ==
    \E c \in Clients :
        /\ pc[c] = "done"
        /\ op[c].name = "update_page"
        /\ result[c] = Returned(200, <<>>)
        /\ sent[c].method = "PUT"
        /\ pageid[c] \in DOMAIN pages
        /\ pages[pageid[c]].body = op[c].body.v
        /\ pages[pageid[c]].title = page_info[c].title
        /\ pages[pageid[c]].version = page_info[c].number + 1
        /\ \E j \in DOMAIN pages : j # pageid[c]

====
